---- MODULE Spec2Model ----
(***************************************************************************)
(* Conversation orchestrator of the invoice generator chat UI             *)
(* (src/src/components/ChatInterface.tsx, ChatInput.tsx, zohoService).     *)
(*                                                                         *)
(* The component state (React useState cells) is the model state.  Every   *)
(* event handler runs to its next await as one atomic step; the code after *)
(* an await (try body / catch / finally) is one atomic step taken when the *)
(* transport call settles.  A handler is a closure over the render in      *)
(* which it was created, so the values of `language` and                   *)
(* `conversationContext` it reads are the ones captured when the handler   *)
(* was invoked; functional state updates (setMessages(prev => ...),        *)
(* setConversationContext(prev => ...)) read the state at update time.     *)
(* Strings that the code inspects (message texts) are sequences of         *)
(* one-character strings so that trim() and toLowerCase() are computed.    *)
(***************************************************************************)
EXTENDS Integers, Sequences, FiniteSets, TLC

VARIABLES
    language,             \* useState<"en"|"kn">            (line 58)
    messages,             \* useState<Message[]>            (line 59)
    isTyping,             \* useState(false)                (line 60)
    conversationContext,  \* useState<ConversationContext>  (line 63)
    showChatInput,        \* useState(false)                (line 68)
    turns,                \* outstanding sendChatMessageToBot calls of handleSendMessage
    ingests,              \* outstanding uploadImageForOcr calls of handleFileUpload
    timers,               \* pending setTimeout callbacks of handleFileUpload (line 368)
    clock,                \* the value Date.now() returns
    resets,               \* outstanding reset notifications of resetChat (line 80)
    nextId,               \* number of interactions started so far (names them)
    lastStep              \* history: the handler that ran last, and what it found

vars == <<language, messages, isTyping, conversationContext, showChatInput,
          turns, ingests, timers, clock, resets, nextId, lastStep>>

(***************************************************************************)
(* Bounds                                                                  *)
(***************************************************************************)
\* user events (submits, clicks, uploads, resets, language changes) explored
MaxCalls == 3

\* user events explored with the whole response vocabulary
MaxTurnCalls == 2

\* user events explored with the further texts of submissions
MaxInputCalls == 3

\* advances of the clock explored
MaxTicks == 2
MaxHttpCalls == 3

(***************************************************************************)
(* Strings                                                                 *)
(***************************************************************************)
CreateInvoice  == <<"c","r","e","a","t","e"," ","i","n","v","o","i","c","e">>
CreateCustomer == <<"c","r","e","a","t","e"," ","c","u","s","t","o","m","e","r">>
ShowItems      == <<"s","h","o","w"," ","i","t","e","m","s">>
ListItems      == <<"l","i","s","t"," ","i","t","e","m","s">>
WhatItems      == <<"w","h","a","t"," ","i","t","e","m","s">>

\* String.prototype.toLowerCase on the letters the inputs use
UpperToLower ==
    [C |-> "c", I |-> "i", L |-> "l", S |-> "s", H |-> "h", R |-> "r"]

toLowerChar(c) == IF c \in DOMAIN UpperToLower THEN UpperToLower[c] ELSE c

toLowerCase(s) == [i \in 1..Len(s) |-> toLowerChar(s[i])]

WhiteSpace == {" ", "\n", "\t"}

RECURSIVE trimStart(_)
trimStart(s) ==
    IF s # <<>> /\ Head(s) \in WhiteSpace THEN trimStart(Tail(s)) ELSE s

RECURSIVE trimEnd(_)
trimEnd(s) ==
    IF s # <<>> /\ s[Len(s)] \in WhiteSpace
    THEN trimEnd(SubSeq(s, 1, Len(s) - 1))
    ELSE s

\* String.prototype.trim
trim(s) == trimEnd(trimStart(s))

(***************************************************************************)
(* Inputs                                                                  *)
(***************************************************************************)
Languages == {"en", "kn"}

\* contents of the ChatInput text box when the user presses send
TypedInputs ==
    { <<" ","L","i","s","t"," ","i","t","e","m","s"," ">>,
      <<" "," ">> }

\* the texts of the two bootstrap buttons (lines 519, 527)
ButtonCommands == { CreateInvoice, CreateCustomer }

\* file names of uploads
Files == { "scan.png" }

\* `text` of a resolved uploadImageForOcr
OcrTexts ==
    { <<>>,
      <<"S","h","o","w"," ","i","t","e","m","s","\n">> }

\* further contents of the text box: a text that is no command and the word
\* reset in another casing
MoreTypedInputs ==
    { <<"h","i">>,
      <<" ","R","e","s","e","t"," ">> }

\* a further `text` of a resolved uploadImageForOcr, which is no command
MoreOcrTexts == { <<"h","i","\n">> }

\* the action vocabulary of the switch (lines 188-309) plus one outside it
KnownActions ==
    { "general_response", "list_items", "ask_question", "request_invoice_info",
      "customer_created", "customer_exists",
      "customer_creation_failed", "customer_creation_error",
      "invoice_created", "invoice_creation_failed", "invoice_creation_error",
      "reset_success", "file_uploaded", "error", "customer_lookup_error" }

Actions == KnownActions \cup { "something_else" }

\* keys of ConversationContext other than language (lines 24-38), one value each
DataKeys == { "status" }

DataValue == [status |-> "collecting"]

\* context objects a response can carry: any subset of the data keys, with or
\* without an echoed language
RespContexts ==
    UNION { { [k \in (D \cup L) |-> IF k = "language" THEN l ELSE DataValue[k]]
              : l \in Languages }
            : D \in SUBSET DataKeys, L \in { {}, {"language"} } }

\* decoded body of a resolved sendChatMessageToBot
Responses ==
    { r \in [action : Actions, hasContext : BOOLEAN, context : RespContexts]
        : r.hasContext \/ r.context = <<>> }

\* the responses the full orchestrator is explored with: one action that
\* keeps the context, one that clears it and one outside the vocabulary,
\* each without a context, with an empty one and with one that carries data
\* and a language
SampleResponses ==
    { r \in Responses :
        /\ r.action \in { "ask_question", "customer_created", "something_else" }
        /\ r.hasContext =>
               r.context \in { <<>>, [status |-> "collecting", language |-> "en"] } }

\* the one response the texts of submissions are explored with
InputResponses ==
    { r \in SampleResponses : r.action = "ask_question" /\ ~r.hasContext }

\* invoice_created responses with their payload: message, invoice_id and
\* pdf_url, each present or not
InvoiceResponses ==
    [ action : {"invoice_created"}, hasContext : {FALSE}, context : {<<>>},
      message : { <<>>, <<"D","o","n","e">> },
      invoice_id : { <<>>, <<"I","1">>, <<"I","2">> },
      pdf_url : { <<>>, <<"u","1">> } ]

NoResponse == [action |-> "", hasContext |-> FALSE, context |-> <<>>]

(***************************************************************************)
(* Messages                                                                *)
(***************************************************************************)
\* a Message (lines 16-21): kind and arg stand for the fixed wording of the
\* text and the value interpolated into it, text for a quoted user/OCR text
Message(isBot, kind, arg, text) ==
    [isBot |-> isBot, kind |-> kind, arg |-> arg, text |-> text]

\* the message with its id: the decimal string of a number, which is a
\* different string for a different number
WithId(m, id) ==
    [k \in (DOMAIN m) \cup {"id"} |-> IF k = "id" THEN id ELSE m[k]]

\* the value of Date.now() when the page is loaded
StartClock == 2

\* lines 41-55: the greeting has the id "1"
getInitialBotMessage(lang) == WithId(Message(TRUE, "greeting", lang, <<>>), 1)

\* addMessage as it would be if the new message were put first
addMessagePrepending(prev, message) == <<message>> \o prev

\* setMessages((prev) => [...prev, message]) (lines 124-126)
addMessage(prev, message) == Append(prev, message)

(***************************************************************************)
(* Context policy of a turn (handleSendMessage, lines 161-182 and 334)     *)
(***************************************************************************)
LanguageOnly(lang) == [language |-> lang]

\* TerminalActions as it would be without the last comparison of the
\* condition
TerminalActionsShort ==
    { "customer_created", "customer_exists", "customer_creation_failed",
      "reset_success", "invoice_created", "invoice_creation_failed",
      "invoice_creation_error" }

\* the actions after which a response without context clears the context
TerminalActions ==
    { "customer_created", "customer_exists", "customer_creation_failed",
      "reset_success", "invoice_created", "invoice_creation_failed",
      "invoice_creation_error", "list_items" }

\* MergeContext as it would be if the language of the response were kept
MergeContextTrusting(respContext, prev) ==
    [k \in (DOMAIN respContext) \cup {"language"} |->
        IF k \in DOMAIN respContext THEN respContext[k] ELSE prev.language]

\* setConversationContext(prev => ({...backendResponse.context,
\*                                  language: prev.language}))
MergeContext(respContext, prev) ==
    [k \in (DOMAIN respContext) \cup {"language"} |->
        IF k = "language" THEN prev.language ELSE respContext[k]]

\* NextContext as it would be if every response without a context cleared
\* the context
NextContextClearing(resp, prev, lang) ==
    IF resp.hasContext
    THEN MergeContext(resp.context, prev)
    ELSE LanguageOnly(lang)

\* the context stored by the try body: prev is the stored context when the
\* update runs, lang the language captured by the handler
NextContext(resp, prev, lang) ==
    IF resp.hasContext
    THEN MergeContext(resp.context, prev)
    ELSE IF resp.action \in TerminalActions
         THEN LanguageOnly(lang)
         ELSE prev

\* CatchContext as it would be without line 334
CatchContextKept(prev, lang) == prev

\* the context stored by the catch block
CatchContext(prev, lang) == LanguageOnly(lang)

\* FinallyTyping as it would be if the finally blocks did not clear the flag
FinallyTypingStuck == TRUE

\* the value of isTyping set by the finally blocks
FinallyTyping == FALSE

\* {...conversationContext, language: language}, the context of a request
RequestContext(ctx, lang) ==
    [k \in (DOMAIN ctx) \cup {"language"} |->
        IF k = "language" THEN lang ELSE ctx[k]]

(***************************************************************************)
(* Message texts                                                           *)
(***************************************************************************)
\* id: Date.now().toString() (line 131)
UserMessage(messageText) ==
    WithId(Message(FALSE, "user", "", messageText), clock)

\* a payload field of the response; <<>> stands for a value that is absent
\* or empty, which the tests of the switch treat alike
Field(resp, k) == IF k \in DOMAIN resp THEN resp[k] ELSE <<>>

\* `invoice_${invoice_id}.pdf` (line 235)
InvoiceFileName(invoice_id) ==
    <<"i","n","v","o","i","c","e","_">> \o invoice_id \o <<".","p","d","f">>

\* InvoiceCreatedReply as it would be if the test of line 230 were a
\* disjunction
InvoiceCreatedReplyEither(resp) ==
    IF Field(resp, "invoice_id") # <<>> \/ Field(resp, "pdf_url") # <<>>
    THEN [isBot |-> TRUE, kind |-> "reply", arg |-> "",
          text |-> Field(resp, "message"),
          href |-> Field(resp, "pdf_url"),
          download |-> InvoiceFileName(Field(resp, "invoice_id"))]
    ELSE IF Field(resp, "message") # <<>>
         THEN Message(TRUE, "reply", "", Field(resp, "message"))
         ELSE Message(TRUE, "reply_fallback", "", Field(resp, "invoice_id"))

\* the invoice_created arm (lines 229-261) for a response with its payload:
\* the message followed by a link with href and download attributes, or the
\* message, or the synthesized text that quotes the invoice id
InvoiceCreatedReply(resp) ==
    IF Field(resp, "invoice_id") # <<>> /\ Field(resp, "pdf_url") # <<>>
    THEN [isBot |-> TRUE, kind |-> "reply", arg |-> "",
          text |-> Field(resp, "message"),
          href |-> Field(resp, "pdf_url"),
          download |-> InvoiceFileName(Field(resp, "invoice_id"))]
    ELSE IF Field(resp, "message") # <<>>
         THEN Message(TRUE, "reply", "", Field(resp, "message"))
         ELSE Message(TRUE, "reply_fallback", "", Field(resp, "invoice_id"))

\* the bot text chosen by the switch on backendResponse.action (lines
\* 184-320): for a known action it is built from the message and payload of
\* the response and does not mention the action; the default arm quotes the
\* action name.  The payload is followed for the invoice_created responses
\* that carry one.
BotReplyText(resp) ==
    IF resp.action = "invoice_created" /\ "invoice_id" \in DOMAIN resp
    THEN InvoiceCreatedReply(resp)
    ELSE IF resp.action \in KnownActions
         THEN Message(TRUE, "reply", "", <<>>)
         ELSE Message(TRUE, "unhandled", resp.action, <<>>)

\* lines 311-320: the bot message of the try body,
\* id: (Date.now() + 1).toString()
BotReply(resp) == WithId(BotReplyText(resp), clock + 1)

\* the notifications of the switch (lines 188-309): the title and the payload
\* value the description quotes
Toasts(resp) ==
    CASE resp.action = "customer_created" ->
             << [title |-> "Customer Created!", arg |-> Field(resp, "contact_id")] >>
      [] resp.action = "customer_exists" ->
             << [title |-> "Customer Found!", arg |-> Field(resp, "contact_id")] >>
      [] resp.action \in { "customer_creation_failed", "customer_creation_error" } ->
             << [title |-> "Customer Creation Failed", arg |-> Field(resp, "message")] >>
      [] resp.action = "invoice_created" ->
             << [title |-> "Invoice Created!", arg |-> Field(resp, "invoice_id")] >>
      [] resp.action \in { "invoice_creation_failed", "invoice_creation_error" } ->
             << [title |-> "Invoice Creation Failed", arg |-> Field(resp, "message")] >>
      [] resp.action = "file_uploaded" ->
             << [title |-> "File Uploaded", arg |-> <<>>] >>
      [] resp.action \in { "error", "customer_lookup_error" } ->
             << [title |-> "API Error", arg |-> Field(resp, "message")] >>
      [] OTHER -> <<>>

\* lines 323-333, id: Date.now().toString()
TurnErrorMessage == WithId(Message(TRUE, "turn_error", "", <<>>), clock)

\* lines 341-349, id: Date.now().toString()
UploadingMessage(file) ==
    WithId(Message(FALSE, "uploading", file, <<>>), clock)

\* lines 358-366, id: (Date.now() + 1).toString()
ExtractedMessage(text) ==
    WithId(Message(TRUE, "extracted", "", text), clock + 1)

\* lines 372-380, id: (Date.now() + 1).toString()
NoTextMessage(file) == WithId(Message(TRUE, "no_text", file, <<>>), clock + 1)

\* lines 384-393, id: (Date.now() + 1).toString()
OcrErrorMessage(file) ==
    WithId(Message(TRUE, "ocr_error", file, <<>>), clock + 1)

(***************************************************************************)
(* History                                                                 *)
(***************************************************************************)
\* the handlers that run resetChat
\* ---- the transport client (api/zohoService) ----

\* the responses of the backend whose ok flag is false
HttpFailures ==
    { [status |-> 404, statusText |-> <<"N", "o", "t", " ", "F", "o", "u", "n", "d">>,
       body |-> <<>>],
      [status |-> 500, statusText |-> <<"E", "r", "r", "o", "r">>,
       body |-> <<"{", "}">>] }

DigitChars == <<"0", "1", "2", "3", "4", "5", "6", "7", "8", "9">>

\* the decimal text a template literal gives for a non-negative integer
RECURSIVE NumberToString(_)
NumberToString(n) ==
    IF n < 10
    THEN <<DigitChars[n + 1]>>
    ELSE NumberToString(n \div 10) \o <<DigitChars[(n % 10) + 1]>>

\* the message of the Error as it would be without the body of the response
sendChatMessageToBotErrorStatusOnly(response) ==
    <<"H", "T", "T", "P", " ", "e", "r", "r", "o", "r", "!", " ",
      "s", "t", "a", "t", "u", "s", ":", " ">>
        \o NumberToString(response.status)

\* the message of the Error sendChatMessageToBot throws when !response.ok
sendChatMessageToBotError(response) ==
    <<"H", "T", "T", "P", " ", "e", "r", "r", "o", "r", "!", " ",
      "s", "t", "a", "t", "u", "s", ":", " ">>
        \o NumberToString(response.status)
        \o <<" ", "-", " ">>
        \o response.body

\* the message of the Error uploadImageForOcr throws when !response.ok
uploadImageForOcrError(response) ==
    <<"F", "a", "i", "l", "e", "d", " ", "t", "o", " ", "u", "p", "l", "o", "a", "d",
      " ", "i", "m", "a", "g", "e", " ", "f", "o", "r", " ", "O", "C", "R", ":", " ">>
        \o NumberToString(response.status)
        \o <<" ">>
        \o response.statusText
        \o <<" ", "-", " ">>
        \o response.body

\* the catch blocks quote error.message in the message they append
TurnHttpErrorMessage(response) ==
    WithId(Message(TRUE, "turn_error", "", sendChatMessageToBotError(response)),
           clock)

OcrHttpErrorMessage(file, response) ==
    WithId(Message(TRUE, "ocr_error", file, uploadImageForOcrError(response)),
           clock + 1)

ResetOps == { "mount", "handleResetChat", "setLanguage" }

\* what the step being taken records: the handler, the action and the
\* presence of a context in the response it received, whether that context
\* carried a language other than the stored one, whether the context stored
\* before the step held data, and how many resetChat steps in a row the step
\* completes (counted up to 2), and the notifications the step has fired
Step(op, resp) ==
    [op         |-> op,
     toasts     |-> IF op = "TurnResolve" THEN Toasts(resp) ELSE <<>>,
     action     |-> resp.action,
     hasContext |-> resp.hasContext,
     echoed     |-> /\ "language" \in DOMAIN resp.context
                    /\ resp.context.language # conversationContext.language,
     hadData    |-> DOMAIN conversationContext # {"language"},
     run        |-> IF op \in ResetOps
                    THEN (IF lastStep.run >= 1 THEN 2 ELSE 1)
                    ELSE 0]

(***************************************************************************)
(* Initial state: first render followed by the mount effect (lines 93-95), *)
(* which runs resetChat with language "kn"                                 *)
(***************************************************************************)
Init ==
    /\ language = "kn"
    /\ messages = <<getInitialBotMessage("kn")>>
    /\ clock = StartClock
    /\ isTyping = FALSE
    /\ conversationContext = LanguageOnly("kn")
    /\ showChatInput = FALSE
    /\ turns = {}
    /\ ingests = {}
    /\ timers = {}
    /\ resets = { [id |-> 0, context |-> LanguageOnly("kn")] }
    /\ nextId = 1
    /\ lastStep = [op |-> "mount", toasts |-> <<>>,
                   action |-> "", hasContext |-> FALSE,
                   echoed |-> FALSE, hadData |-> FALSE, run |-> 1]

(***************************************************************************)
(* handleSendMessage                                                       *)
(***************************************************************************)
initialCommands ==
    { CreateInvoice, CreateCustomer, ShowItems, ListItems, WhatItems }

\* handleSendMessage as it would be if the text were compared without trim
handleSendMessageUntrimmed(messageText, lang, ctx) ==
    /\ messages' = addMessage(messages, UserMessage(messageText))
    /\ showChatInput' =
           IF toLowerCase(messageText) \in initialCommands
           THEN TRUE
           ELSE showChatInput
    /\ isTyping' = TRUE
    /\ turns' = turns \cup
           { [id |-> nextId, text |-> messageText, lang |-> lang,
              context |-> RequestContext(ctx, lang)] }
    /\ nextId' = nextId + 1

\* handleSendMessage as it would be if every submission revealed the input
handleSendMessageRevealing(messageText, lang, ctx) ==
    /\ messages' = addMessage(messages, UserMessage(messageText))
    /\ showChatInput' = TRUE
    /\ isTyping' = TRUE
    /\ turns' = turns \cup
           { [id |-> nextId, text |-> messageText, lang |-> lang,
              context |-> RequestContext(ctx, lang)] }
    /\ nextId' = nextId + 1

\* lines 129-159: the part of handleSendMessage before the await.  lang and
\* ctx are the language and conversationContext of the closure.
\* handleSendMessage as it would be if the user message were not appended
\* before the request is issued
handleSendMessageLate(messageText, lang, ctx) ==
    /\ messages' = messages
    /\ showChatInput' =
           IF trim(toLowerCase(messageText)) \in initialCommands
           THEN TRUE
           ELSE showChatInput
    /\ isTyping' = TRUE
    /\ turns' = turns \cup
           { [id |-> nextId, text |-> messageText, lang |-> lang,
              context |-> RequestContext(ctx, lang)] }
    /\ nextId' = nextId + 1

handleSendMessage(messageText, lang, ctx) ==
    /\ messages' = addMessage(messages, UserMessage(messageText))
    /\ showChatInput' =
           IF trim(toLowerCase(messageText)) \in initialCommands
           THEN TRUE
           ELSE showChatInput
    /\ isTyping' = TRUE
    /\ turns' = turns \cup
           { [id |-> nextId, text |-> messageText, lang |-> lang,
              context |-> RequestContext(ctx, lang)] }
    /\ nextId' = nextId + 1

\* TurnResolve as it would be if the default arm of the switch threw
TurnResolveStrict(t, resp) ==
    /\ t \in turns
    /\ conversationContext' =
           IF resp.action \in KnownActions
           THEN NextContext(resp, conversationContext, t.lang)
           ELSE CatchContext(conversationContext, t.lang)
    /\ messages' =
           IF resp.action \in KnownActions
           THEN addMessage(messages, BotReply(resp))
           ELSE addMessage(messages, TurnErrorMessage)
    /\ isTyping' = FinallyTyping
    /\ turns' = turns \ {t}
    /\ lastStep' = Step("TurnResolve", resp)
    /\ UNCHANGED <<clock, language, showChatInput, ingests, timers, resets,
                   nextId>>

\* lines 161-320 and 335-337: the response arrived and is a decoded object
TurnResolve(t, resp) ==
    /\ t \in turns
    /\ conversationContext' = NextContext(resp, conversationContext, t.lang)
    /\ messages' = addMessage(messages, BotReply(resp))
    /\ isTyping' = FinallyTyping
    /\ turns' = turns \ {t}
    /\ lastStep' = Step("TurnResolve", resp)
    /\ UNCHANGED <<clock, language, showChatInput, ingests, timers, resets, nextId>>

\* TurnCatch as it would be if the catch block only logged the error
TurnCatchSilent(t, op) ==
    /\ t \in turns
    /\ conversationContext' = CatchContext(conversationContext, t.lang)
    /\ isTyping' = FinallyTyping
    /\ turns' = turns \ {t}
    /\ lastStep' = Step(op, NoResponse)
    /\ UNCHANGED <<clock, language, messages, showChatInput, ingests, timers, resets,
                   nextId>>

\* lines 321-337: catch and finally
TurnCatch(t, op) ==
    /\ t \in turns
    /\ messages' = addMessage(messages, TurnErrorMessage)
    /\ conversationContext' = CatchContext(conversationContext, t.lang)
    /\ isTyping' = FinallyTyping
    /\ turns' = turns \ {t}
    /\ lastStep' = Step(op, NoResponse)
    /\ UNCHANGED <<clock, language, showChatInput, ingests, timers, resets, nextId>>

\* sendChatMessageToBot rejects: fetch failed or the status was not ok
TurnReject(t) == TurnCatch(t, "TurnReject")

\* sendChatMessageToBot resolves with null: reading backendResponse.context
\* (line 162) throws, which the catch block receives
TurnMalformed(t) == TurnCatch(t, "TurnMalformed")

(***************************************************************************)
(* ChatInput.handleSend and the bootstrap buttons                          *)
(***************************************************************************)
\* ChatInput.tsx lines 34-41.  ChatInput is rendered only while
\* showChatInput holds (line 536); `disabled` is isTyping (line 546).
\* message is the content of the text box.
\* handleSend as it would be if it passed the text on as typed
handleSendRaw(message) ==
    /\ showChatInput
    /\ nextId <= MaxCalls
    /\ IF trim(message) # <<>> /\ ~isTyping
       THEN /\ handleSendMessage(message, language, conversationContext)
            /\ lastStep' = Step("handleSend", NoResponse)
            /\ UNCHANGED <<clock, language, conversationContext, ingests, timers,
                           resets>>
       ELSE /\ lastStep' = Step("handleSendIgnored", NoResponse)
            /\ UNCHANGED <<clock, language, messages, isTyping, conversationContext,
                           showChatInput, turns, ingests, timers, resets,
                           nextId>>

handleSend(message) ==
    /\ showChatInput
    /\ nextId <= MaxCalls
    /\ IF trim(message) # <<>> /\ ~isTyping
       THEN /\ handleSendMessage(trim(message), language, conversationContext)
            /\ lastStep' = Step("handleSend", NoResponse)
            /\ UNCHANGED <<clock, language, conversationContext, ingests, timers,
                           resets>>
       ELSE /\ lastStep' = Step("handleSendIgnored", NoResponse)
            /\ UNCHANGED <<clock, language, messages, isTyping, conversationContext,
                           showChatInput, turns, ingests, timers, resets,
                           nextId>>

\* lines 511-533: the buttons are rendered while showChatInput is false and
\* are disabled while isTyping
ClickBootstrap(command) ==
    /\ ~showChatInput
    /\ ~isTyping
    /\ nextId <= MaxCalls
    /\ handleSendMessage(command, language, conversationContext)
    /\ lastStep' = Step("ClickBootstrap", NoResponse)
    /\ UNCHANGED <<clock, language, conversationContext, ingests, timers, resets>>

(***************************************************************************)
(* handleFileUpload                                                        *)
(***************************************************************************)
\* lines 340-353: up to the await.  The upload button belongs to ChatInput
\* and is disabled while isTyping (ChatInput.tsx line 76).  The closure's
\* language and conversationContext are kept for the handleSendMessage that
\* the timer of line 368 calls.
handleFileUpload(file) ==
    /\ showChatInput
    /\ ~isTyping
    /\ nextId <= MaxCalls
    /\ messages' = addMessage(messages, UploadingMessage(file))
    /\ isTyping' = TRUE
    /\ ingests' = ingests \cup
           { [id |-> nextId, file |-> file, lang |-> language,
              context |-> conversationContext] }
    /\ nextId' = nextId + 1
    /\ lastStep' = Step("handleFileUpload", NoResponse)
    /\ UNCHANGED <<clock, language, conversationContext, showChatInput, turns,
                   timers, resets>>

\* OcrResolve as it would be if the re-submission were scheduled outside
\* the test of ocrResult.text
OcrResolveResubmitting(g, text) ==
    /\ g \in ingests
    /\ IF text # <<>>
       THEN /\ showChatInput' = TRUE
            /\ messages' = addMessage(messages, ExtractedMessage(text))
       ELSE /\ messages' = addMessage(messages, NoTextMessage(g.file))
            /\ UNCHANGED showChatInput
    /\ timers' = timers \cup
           { [id |-> g.id, text |-> text, lang |-> g.lang,
              context |-> g.context] }
    /\ isTyping' = FinallyTyping
    /\ ingests' = ingests \ {g}
    /\ lastStep' = Step("OcrResolve", NoResponse)
    /\ UNCHANGED <<clock, language, conversationContext, turns, resets, nextId>>

\* lines 353-381 and 395-397: uploadImageForOcr resolved with {text}
OcrResolve(g, text) ==
    /\ g \in ingests
    /\ IF text # <<>>
       THEN /\ showChatInput' = TRUE
            /\ messages' = addMessage(messages, ExtractedMessage(text))
            /\ timers' = timers \cup
                   { [id |-> g.id, text |-> text, lang |-> g.lang,
                      context |-> g.context] }
       ELSE /\ messages' = addMessage(messages, NoTextMessage(g.file))
            /\ UNCHANGED <<showChatInput, timers>>
    /\ isTyping' = FinallyTyping
    /\ ingests' = ingests \ {g}
    /\ lastStep' = Step("OcrResolve", NoResponse)
    /\ UNCHANGED <<clock, language, conversationContext, turns, resets, nextId>>

\* OcrReject as it would be if the catch block hid the input again
OcrRejectHiding(g) ==
    /\ g \in ingests
    /\ messages' = addMessage(messages, OcrErrorMessage(g.file))
    /\ isTyping' = FinallyTyping
    /\ showChatInput' = FALSE
    /\ ingests' = ingests \ {g}
    /\ lastStep' = Step("OcrReject", NoResponse)
    /\ UNCHANGED <<clock, language, conversationContext, turns, timers, resets,
                   nextId>>

\* lines 382-397: uploadImageForOcr rejected
OcrReject(g) ==
    /\ g \in ingests
    /\ messages' = addMessage(messages, OcrErrorMessage(g.file))
    /\ isTyping' = FinallyTyping
    /\ ingests' = ingests \ {g}
    /\ lastStep' = Step("OcrReject", NoResponse)
    /\ UNCHANGED <<clock, language, conversationContext, showChatInput, turns,
                   timers, resets, nextId>>

\* the backend answered the request of turn t with a response that is not
\* ok: sendChatMessageToBot throws and lines 321-337 run
TurnHttpError(t, response) ==
    /\ t \in turns
    /\ messages' = addMessage(messages, TurnHttpErrorMessage(response))
    /\ conversationContext' = CatchContext(conversationContext, t.lang)
    /\ isTyping' = FinallyTyping
    /\ turns' = turns \ {t}
    /\ lastStep' = Step("TurnHttpError", NoResponse)
    /\ UNCHANGED <<clock, language, showChatInput, ingests, timers, resets, nextId>>

\* the backend answered the upload g with a response that is not ok:
\* uploadImageForOcr throws and lines 382-397 run
OcrHttpError(g, response) ==
    /\ g \in ingests
    /\ messages' = addMessage(messages, OcrHttpErrorMessage(g.file, response))
    /\ isTyping' = FinallyTyping
    /\ ingests' = ingests \ {g}
    /\ lastStep' = Step("OcrHttpError", NoResponse)
    /\ UNCHANGED <<clock, language, conversationContext, showChatInput, turns,
                   timers, resets, nextId>>

\* lines 368-370: the timer fires and calls the handleSendMessage of the
\* render in which the upload was started
TimerFire(tm) ==
    /\ tm \in timers
    /\ handleSendMessage(tm.text, tm.lang, tm.context)
    /\ timers' = timers \ {tm}
    /\ lastStep' = Step("TimerFire", NoResponse)
    /\ UNCHANGED <<clock, language, conversationContext, ingests, resets>>

(***************************************************************************)
(* Reset                                                                   *)
(***************************************************************************)
\* ResetMessages as it would be if the greeting were added with addMessage
ResetMessagesAppended(prev, lang) ==
    addMessage(prev, getInitialBotMessage(lang))

\* line 75
ResetMessages(prev, lang) == <<getInitialBotMessage(lang)>>

\* ResetShowChatInput as it would be without line 77
ResetShowChatInputKept == showChatInput

\* line 77
ResetShowChatInput == FALSE

\* lines 74-90: resetChat of the render whose language is lang
resetChat(lang) ==
    /\ messages' = ResetMessages(messages, lang)
    /\ conversationContext' = LanguageOnly(lang)
    /\ showChatInput' = ResetShowChatInput
    /\ resets' = resets \cup { [id |-> nextId, context |-> LanguageOnly(lang)] }
    /\ nextId' = nextId + 1

\* lines 400-404 and 443-452: the reset button, disabled while isTyping.
\* setIsTyping(true) and setIsTyping(false) are in one batch.
handleResetChat ==
    /\ ~isTyping
    /\ nextId <= MaxCalls
    /\ resetChat(language)
    /\ isTyping' = FALSE
    /\ lastStep' = Step("handleResetChat", NoResponse)
    /\ UNCHANGED <<clock, language, turns, ingests, timers>>

\* setLanguage as it would be if the effect ran the resetChat of the render
\* before the change
setLanguageStale(lang) ==
    /\ ~isTyping
    /\ lang # language
    /\ nextId <= MaxCalls
    /\ language' = lang
    /\ resetChat(language)
    /\ lastStep' = Step("setLanguage", NoResponse)
    /\ UNCHANGED <<clock, isTyping, turns, ingests, timers>>

\* lines 432-438 and 93-95: the select changes the language, and the effect
\* of the next render runs resetChat with the new language
setLanguage(lang) ==
    /\ ~isTyping
    /\ lang # language
    /\ nextId <= MaxCalls
    /\ language' = lang
    /\ resetChat(lang)
    /\ lastStep' = Step("setLanguage", NoResponse)
    /\ UNCHANGED <<clock, isTyping, turns, ingests, timers>>

\* ResetNotifySettle as it would be if the catch callback reported the
\* failure in the log
ResetNotifySettleReporting(r, op) ==
    /\ r \in resets
    /\ resets' = resets \ {r}
    /\ messages' = IF op = "ResetNotifyReject"
                   THEN addMessage(messages, TurnErrorMessage)
                   ELSE messages
    /\ lastStep' = Step(op, NoResponse)
    /\ UNCHANGED <<clock, language, isTyping, conversationContext, showChatInput,
                   turns, ingests, timers, nextId>>

\* lines 83-89: the notification settles; the then callback takes no
\* argument and is empty, the catch callback writes to the console
ResetNotifySettle(r, op) ==
    /\ r \in resets
    /\ resets' = resets \ {r}
    /\ lastStep' = Step(op, NoResponse)
    /\ UNCHANGED <<clock, language, messages, isTyping, conversationContext,
                   showChatInput, turns, ingests, timers, nextId>>

ResetNotifyResolve(r) == ResetNotifySettle(r, "ResetNotifyResolve")

ResetNotifyReject(r) == ResetNotifySettle(r, "ResetNotifyReject")

(***************************************************************************)
(* The clock                                                               *)
(***************************************************************************)
\* a millisecond passes between two handlers
Tick ==
    /\ clock < StartClock + MaxTicks
    /\ clock' = clock + 1
    /\ lastStep' = Step("Tick", NoResponse)
    /\ UNCHANGED <<language, messages, isTyping, conversationContext,
                   showChatInput, turns, ingests, timers, resets, nextId>>

(***************************************************************************)
(* Specification                                                           *)
(***************************************************************************)
\* the whole orchestrator: every event, every interleaving
Next ==
    \/ \E m \in TypedInputs : handleSend(m)
    \/ \E c \in ButtonCommands : ClickBootstrap(c)
    \/ \E f \in Files : handleFileUpload(f)
    \/ \E g \in ingests, text \in OcrTexts : OcrResolve(g, text)
    \/ \E g \in ingests : OcrReject(g)
    \/ \E tm \in timers : TimerFire(tm)
    \/ \E t \in turns, resp \in SampleResponses : TurnResolve(t, resp)
    \/ \E t \in turns : TurnReject(t)
    \/ \E t \in turns : TurnMalformed(t)
    \/ handleResetChat
    \/ \E lang \in Languages : setLanguage(lang)
    \/ \E r \in resets : ResetNotifyResolve(r)
    \/ \E r \in resets : ResetNotifyReject(r)

Spec == Init /\ [][Next]_vars

\* the turns of the orchestrator with the whole response vocabulary: the
\* same handlers from the same initial state, with one button, one OCR text
\* and MaxTurnCalls user events; typed submissions, failures and the
\* settling of reset notifications are explored by Spec
TurnNext ==
    \/ /\ nextId <= MaxTurnCalls
       /\ \/ ClickBootstrap(CreateInvoice)
          \/ \E f \in Files : handleFileUpload(f)
          \/ \E lang \in Languages : setLanguage(lang)
    \/ \E g \in ingests : OcrResolve(g, <<"S","h","o","w"," ","i","t","e","m","s","\n">>)
    \/ \E tm \in timers : TimerFire(tm)
    \/ \E t \in turns, resp \in Responses : TurnResolve(t, resp)

TurnSpec == Init /\ [][TurnNext]_vars

\* the orchestrator over the texts of submissions: the same handlers from
\* the same initial state, with the further typed and extracted texts, one
\* response, and MaxInputCalls user events; malformed responses and the
\* settling of reset notifications are explored by Spec
InputNext ==
    \/ /\ nextId <= MaxInputCalls
       /\ \/ \E m \in TypedInputs \cup MoreTypedInputs : handleSend(m)
          \/ \E c \in ButtonCommands : ClickBootstrap(c)
          \/ \E f \in Files : handleFileUpload(f)
          \/ handleResetChat
          \/ \E lang \in Languages : setLanguage(lang)
    \/ \E g \in ingests, text \in OcrTexts \cup MoreOcrTexts : OcrResolve(g, text)
    \/ \E g \in ingests : OcrReject(g)
    \/ \E tm \in timers : TimerFire(tm)
    \/ \E t \in turns, resp \in InputResponses : TurnResolve(t, resp)
    \/ \E t \in turns : TurnReject(t)

InputSpec == Init /\ [][InputNext]_vars

\* the turns of the orchestrator with the payload of invoice_created: typed
\* and button submissions answered by InvoiceResponses
InvoiceNext ==
    \/ \E m \in TypedInputs : handleSend(m)
    \/ \E c \in ButtonCommands : ClickBootstrap(c)
    \/ \E t \in turns, resp \in InvoiceResponses : TurnResolve(t, resp)

InvoiceSpec == Init /\ [][InvoiceNext]_vars

\* the turns of the orchestrator with a clock that advances or not between
\* two handlers: typed and button submissions, one response, failures
ClockNext ==
    \/ Tick
    \/ \E m \in TypedInputs : handleSend(m)
    \/ \E c \in ButtonCommands : ClickBootstrap(c)
    \/ \E t \in turns, resp \in InputResponses : TurnResolve(t, resp)
    \/ \E t \in turns : TurnReject(t)

ClockSpec == Init /\ [][ClockNext]_vars

\* the orchestrator over a backend that also answers with HTTP failures
TransportNext ==
    \/ /\ nextId <= MaxHttpCalls
       /\ \/ \E c \in ButtonCommands : ClickBootstrap(c)
          \/ \E f \in Files : handleFileUpload(f)
          \/ handleResetChat
    \/ \E g \in ingests : OcrResolve(g, <<"S","h","o","w"," ","i","t","e","m","s","\n">>)
    \/ \E g \in ingests : OcrReject(g)
    \/ \E g \in ingests, response \in HttpFailures : OcrHttpError(g, response)
    \/ \E tm \in timers : TimerFire(tm)
    \/ \E t \in turns, resp \in InputResponses : TurnResolve(t, resp)
    \/ \E t \in turns : TurnReject(t)
    \/ \E t \in turns, response \in HttpFailures : TurnHttpError(t, response)
    \/ \E r \in resets : ResetNotifyResolve(r)
    \/ \E r \in resets : ResetNotifyReject(r)

TransportSpec == Init /\ [][TransportNext]_vars

(***************************************************************************)
(* Properties                                                              *)
(***************************************************************************)
\* the steps in which the code after an await of a turn or an ingest runs
SettleOps == { "TurnResolve", "TurnReject", "TurnMalformed",
               "OcrResolve", "OcrReject" }

\* the steps in which handleSendMessage is entered
TurnStartOps == { "handleSend", "ClickBootstrap", "TimerFire" }

\* the step appends exactly one message, which satisfies P
AppendsOne(P(_)) ==
    /\ Len(messages') = Len(messages) + 1
    /\ SubSeq(messages', 1, Len(messages)) = messages
    /\ P(messages'[Len(messages')])

IsTurnError(m) == m.isBot /\ m.kind = "turn_error"

IsBotReply(m) ==
    m.isBot /\ m.kind \in { "reply", "reply_fallback", "unhandled" }

IsUserText(m) == ~m.isBot /\ m.kind = "user"

\* C1: at most one turn is in flight: no call of handleSendMessage starts
\* while the sendChatMessageToBot of another is outstanding.
OneTurnInFlight == Cardinality(turns) <= 1

\* C2: isTyping is true in exactly the states in which the transport call of
\* a turn or of an ingest is outstanding.
TypingIffInFlight == isTyping <=> (turns # {} \/ ingests # {})

\* C3: every step in which the transport call of a turn or an ingest
\* settles, whatever its outcome, leaves isTyping false, and isTyping is
\* false in every state in which no such call is outstanding.
TypingReleased ==
    [][ /\ lastStep'.op \in SettleOps => ~isTyping'
        /\ (turns' = {} /\ ingests' = {}) => ~isTyping' ]_vars

\* a turn has just failed although the transport call of another turn was
\* still to fail too, and now none is outstanding
TypingReleasedWitness ==
    /\ lastStep.op = "TurnReject"
    /\ turns = {}
    /\ ingests = {}
    /\ ~isTyping
    /\ \E i \in 1..Len(messages) - 1 :
          IsTurnError(messages[i]) /\ IsTurnError(messages[i + 1])

\* C4: when sendChatMessageToBot rejects, the turn appends exactly one bot
\* error message, stores a context whose only key is language (bound to the
\* language of the handler that ran the turn), and leaves isTyping false.
TurnFailureHandled ==
    [][ \A t \in turns :
          (lastStep'.op = "TurnReject" /\ t \notin turns') =>
              /\ AppendsOne(IsTurnError)
              /\ conversationContext' = [language |-> t.lang]
              /\ ~isTyping' ]_vars

\* a turn was rejected while the stored context held data
TurnFailureWitness ==
    /\ lastStep.op = "TurnReject"
    /\ lastStep.hadData
    /\ DOMAIN conversationContext = {"language"}
    /\ IsTurnError(messages[Len(messages)])
    /\ \E i \in 1..Len(messages) - 1 : IsUserText(messages[i])
    /\ ~isTyping

\* C5: when the response of a turn carries a context object, whatever its
\* action, the stored context afterwards has the keys of that object and
\* language, the values of that object for the keys other than language, and
\* the language that was stored before.
ContextReplaced ==
    [][ (lastStep'.op = "TurnResolve" /\ lastStep'.hasContext) =>
          \A t \in turns \ turns', context \in RespContexts :
              TurnResolve(t, [action |-> lastStep'.action,
                              hasContext |-> TRUE,
                              context |-> context]) =>
                  /\ DOMAIN conversationContext' =
                         (DOMAIN context) \cup {"language"}
                  /\ \A k \in (DOMAIN context) \ {"language"} :
                         conversationContext'[k] = context[k]
                  /\ conversationContext'.language =
                         conversationContext.language ]_vars

\* a response with a backend-reported error action carried a context without
\* the data key that was stored and with another language than the stored
\* one: the data key is gone and the language is still the client's
ContextReplacedWitness ==
    /\ lastStep.op = "TurnResolve"
    /\ lastStep.action = "customer_lookup_error"
    /\ lastStep.hasContext
    /\ lastStep.echoed
    /\ lastStep.hadData
    /\ conversationContext = [language |-> language]

\* C6: no response with a context changes the stored language, and the
\* stored language changes only in a language-change step.
LanguageSticky ==
    [][ /\ (lastStep'.op = "TurnResolve" /\ lastStep'.hasContext) =>
               conversationContext'.language = conversationContext.language
        /\ conversationContext'.language # conversationContext.language =>
               lastStep'.op = "setLanguage" ]_vars

\* C7: when the response has no context and its action is one of the eight
\* terminal actions, the stored context afterwards has the single key
\* language (bound to the language of the handler that ran the turn).
TerminalClears ==
    [][ ( /\ lastStep'.op = "TurnResolve"
          /\ ~lastStep'.hasContext
          /\ lastStep'.action \in
                 { "customer_created", "customer_exists",
                   "customer_creation_failed", "invoice_created",
                   "invoice_creation_failed", "invoice_creation_error",
                   "reset_success", "list_items" } ) =>
          \A t \in turns \ turns' :
              conversationContext' = [language |-> t.lang] ]_vars

\* list_items arrived without a context while the stored context held data
TerminalClearsWitness ==
    /\ lastStep.op = "TurnResolve"
    /\ lastStep.action = "list_items"
    /\ ~lastStep.hasContext
    /\ lastStep.hadData
    /\ conversationContext = [language |-> language]

\* C8: when the response has no context and its action is general_response,
\* ask_question or request_invoice_info, the stored context is unchanged;
\* the turn adds one user entry when it starts and one bot entry when it
\* resolves.
NonTerminalKeeps ==
    [][ /\ ( /\ lastStep'.op = "TurnResolve"
              /\ ~lastStep'.hasContext
              /\ lastStep'.action \in { "general_response", "ask_question",
                                        "request_invoice_info" } ) =>
              /\ conversationContext' = conversationContext
              /\ AppendsOne(IsBotReply)
        /\ lastStep'.op \in TurnStartOps =>
              /\ AppendsOne(IsUserText)
              /\ conversationContext' = conversationContext ]_vars

\* ask_question arrived without a context while the stored context held
\* data, and the data is still stored
NonTerminalKeepsWitness ==
    /\ lastStep.op = "TurnResolve"
    /\ lastStep.action = "ask_question"
    /\ ~lastStep.hasContext
    /\ lastStep.hadData
    /\ "status" \in DOMAIN conversationContext
    /\ IsBotReply(messages[Len(messages)])
    /\ IsUserText(messages[Len(messages) - 1])

\* C9: a click on the reset button leaves the log with the single greeting
\* in the current language, the context with the single key language,
\* showChatInput false, and exactly one more reset notification outstanding
\* (so the local changes are in effect before it settles); no other request
\* is sent.
ResetButtonResets ==
    [][ lastStep'.op = "handleResetChat" =>
          /\ language' = language
          /\ messages' = << [id |-> 1, isBot |-> TRUE, kind |-> "greeting",
                             arg |-> language, text |-> <<>>] >>
          /\ conversationContext' = [language |-> language]
          /\ ~showChatInput'
          /\ resets \subseteq resets'
          /\ Cardinality(resets' \ resets) = 1
          /\ \A n \in resets' \ resets : n.context = [language |-> language]
          /\ turns' = turns
          /\ ingests' = ingests ]_vars

\* the reset button was clicked in a conversation that had revealed the text
\* input and stored data
ResetButtonWitness ==
    /\ lastStep.op = "handleResetChat"
    /\ lastStep.hadData
    /\ Len(messages) = 1
    /\ ~showChatInput
    /\ resets # {}

\* C10: a click on the reset button right after a step that ran resetChat
\* changes none of messages, conversationContext, showChatInput, isTyping.
ResetIdempotent ==
    [][ (lastStep.run >= 1 /\ lastStep'.op = "handleResetChat") =>
          <<messages, conversationContext, showChatInput, isTyping>>' =
          <<messages, conversationContext, showChatInput, isTyping>> ]_vars

\* the reset button was clicked twice in a row after an earlier interaction
ResetIdempotentWitness ==
    /\ lastStep.op = "handleResetChat"
    /\ lastStep.run = 2
    /\ nextId >= 4

\* the steps in which the reset notification of resetChat settles
NotifySettleOps == { "ResetNotifyResolve", "ResetNotifyReject" }

\* C11: a step in which the reset notification settles, by resolving or by
\* rejecting, changes none of messages, conversationContext, showChatInput
\* and isTyping.
NotifyOutcomeIgnored ==
    [][ lastStep'.op \in NotifySettleOps =>
          <<messages, conversationContext, showChatInput, isTyping>>' =
          <<messages, conversationContext, showChatInput, isTyping>> ]_vars

\* the notification of a reset that followed an interaction has failed, and
\* the log, the context and the input stage are still those of the reset
NotifyOutcomeWitness ==
    /\ lastStep.op = "ResetNotifyReject"
    /\ nextId >= 3
    /\ messages = <<getInitialBotMessage(language)>>
    /\ conversationContext = [language |-> language]
    /\ ~showChatInput
    /\ ~isTyping
    /\ resets = {}
\* C12: a turn whose response action is reset_success leaves the log without
\* the messages it held before (the greeting re-seeded, at most followed by
\* the reply of the turn), the context with the single key language, and
\* showChatInput false.
ResetSuccessResets ==
    [][ (lastStep'.op = "TurnResolve" /\ lastStep'.action = "reset_success") =>
          /\ messages' \in
                 { <<getInitialBotMessage(language)>>,
                   <<getInitialBotMessage(language),
                     BotReply([action |-> "reset_success"])>> }
          /\ DOMAIN conversationContext' = {"language"}
          /\ ~showChatInput' ]_vars
\* C13: no turn is in flight whose text, trimmed and lower-cased, is the
\* word reset: such a submission never reaches sendChatMessageToBot as a
\* turn.
ResetNeverSent ==
    \A t \in turns : trim(toLowerCase(t.text)) # <<"r","e","s","e","t">>
\* the text, trimmed and lower-cased, is one of the bootstrap commands
IsBootstrapText(text) ==
    trim(toLowerCase(text)) \in
        { <<"c","r","e","a","t","e"," ","i","n","v","o","i","c","e">>,
          <<"c","r","e","a","t","e"," ","c","u","s","t","o","m","e","r">>,
          <<"s","h","o","w"," ","i","t","e","m","s">>,
          <<"l","i","s","t"," ","i","t","e","m","s">>,
          <<"w","h","a","t"," ","i","t","e","m","s">> }

\* the message the step has appended
Appended == messages'[Len(messages')]

\* the steps in which the turn takes its failure path
TurnFailOps == { "TurnReject", "TurnMalformed" }

\* C14: showChatInput goes from false to true only in a step that submits a
\* bootstrap command or in which an OCR extraction returned a non-empty
\* text, and from true to false only in a step that runs resetChat.
InputStageChanges ==
    [][ /\ (~showChatInput /\ showChatInput') =>
              \/ /\ lastStep'.op \in TurnStartOps
                 /\ IsUserText(Appended)
                 /\ IsBootstrapText(Appended.text)
              \/ /\ lastStep'.op = "OcrResolve"
                 /\ Appended.kind = "extracted"
                 /\ Appended.text # <<>>
        /\ (showChatInput /\ ~showChatInput') =>
              lastStep'.op \in { "handleResetChat", "setLanguage" } ]_vars

\* an extracted text that is no command was re-submitted after a reset had
\* hidden the input, and the input is still hidden
InputStageWitness ==
    /\ lastStep.op = "TimerFire"
    /\ ~showChatInput
    /\ IsUserText(messages[Len(messages)])
    /\ ~IsBootstrapText(messages[Len(messages)].text)
    /\ turns # {}

\* C15: every step that submits a bootstrap command (typed, by button or as
\* an OCR re-submission) leaves showChatInput true in the very step that
\* issues the transport call of the turn, and the failure path of a turn
\* leaves showChatInput as it was.
BootstrapReveals ==
    [][ /\ ( /\ lastStep'.op \in TurnStartOps
              /\ IsBootstrapText(Appended.text) ) =>
              /\ showChatInput'
              /\ \E t \in turns' \ turns : t.text = Appended.text
        /\ lastStep'.op \in TurnFailOps =>
              showChatInput' = showChatInput ]_vars

\* the turn of a bootstrap command that an OCR re-submission started while
\* the input was hidden has failed, and the input is shown
BootstrapRevealsWitness ==
    /\ lastStep.op = "TurnReject"
    /\ showChatInput
    /\ turns = {}
    /\ Len(messages) = 3
    /\ IsUserText(messages[2])
    /\ IsBootstrapText(messages[2].text)
    /\ messages[2].text \notin ButtonCommands
    /\ IsTurnError(messages[3])
\* C16: the step that starts a turn appends exactly one user entry and puts
\* exactly one turn in flight; the step that ends a turn, by a response with
\* any action or by a failure, takes exactly one turn out of flight and
\* appends exactly one bot entry; no other step starts or ends a turn.
TurnAppendsPair ==
    [][ /\ lastStep'.op \in TurnStartOps =>
              /\ AppendsOne(IsUserText)
              /\ turns \subseteq turns'
              /\ Cardinality(turns' \ turns) = 1
        /\ lastStep'.op = "TurnResolve" =>
              /\ AppendsOne(IsBotReply)
              /\ turns' \subseteq turns
              /\ Cardinality(turns \ turns') = 1
        /\ lastStep'.op \in TurnFailOps =>
              /\ AppendsOne(IsTurnError)
              /\ turns' \subseteq turns
              /\ Cardinality(turns \ turns') = 1
        /\ lastStep'.op \notin TurnStartOps \cup TurnFailOps \cup {"TurnResolve"} =>
              turns' = turns ]_vars

\* a turn that got a reply was followed by a turn that failed: the log holds
\* the greeting and two pairs of a user entry and a bot entry
TurnAppendsPairWitness ==
    /\ lastStep.op \in TurnFailOps
    /\ turns = {}
    /\ Len(messages) = 5
    /\ IsUserText(messages[2])
    /\ IsBotReply(messages[3])
    /\ IsUserText(messages[4])
    /\ IsTurnError(messages[5])
\* C17: the step in which uploadImageForOcr resolves with a non-empty text
\* appends exactly one bot message quoting the text and schedules exactly
\* one call of handleSendMessage with that text; when that call runs it
\* appends the user message with that text, the log holds the extraction
\* notice before it, and showChatInput is already true.
OcrResubmits ==
    [][ /\ \A g \in ingests \ ingests', text \in OcrTexts \cup MoreOcrTexts :
              (text # <<>> /\ OcrResolve(g, text)) =>
                  /\ AppendsOne(LAMBDA m : m = ExtractedMessage(text))
                  /\ timers \subseteq timers'
                  /\ Cardinality(timers' \ timers) = 1
                  /\ \A tm \in timers' \ timers : tm.text = text
                  /\ turns' = turns
        /\ \A tm \in timers \ timers' :
              lastStep'.op = "TimerFire" =>
                  /\ AppendsOne(LAMBDA m : m = UserMessage(tm.text))
                  /\ Cardinality(turns' \ turns) = 1
                  /\ \E i \in 1..Len(messages) :
                         messages[i] = ExtractedMessage(tm.text)
                  /\ showChatInput ]_vars
\* C18: the step in which uploadImageForOcr resolves with an empty text
\* appends exactly one bot message saying that nothing was extracted,
\* schedules no re-submission and starts no turn, leaves the context and
\* showChatInput unchanged, and leaves isTyping false.
EmptyExtraction ==
    [][ \A g \in ingests \ ingests' :
          OcrResolve(g, <<>>) =>
              /\ AppendsOne(LAMBDA m : m = NoTextMessage(g.file))
              /\ timers' = timers
              /\ turns' = turns
              /\ conversationContext' = conversationContext
              /\ showChatInput' = showChatInput
              /\ ~isTyping' ]_vars

\* an upload made while the context held data came back without text
EmptyExtractionWitness ==
    /\ lastStep.op = "OcrResolve"
    /\ messages[Len(messages)].kind = "no_text"
    /\ lastStep.hadData
    /\ "status" \in DOMAIN conversationContext
    /\ showChatInput
    /\ timers = {}
    /\ turns = {}
    /\ ~isTyping

\* C19: every step in which a transport call fails, that of a turn or that
\* of an upload, leaves the context with the single key language.
TransportFailureClears ==
    [][ lastStep'.op \in { "TurnReject", "OcrReject" } =>
          DOMAIN conversationContext' = {"language"} ]_vars

\* C20: when the response has no context and its action is
\* customer_creation_error, file_uploaded, error, customer_lookup_error or
\* outside the vocabulary, the stored context afterwards has the single key
\* language.
OtherActionsClear ==
    [][ ( /\ lastStep'.op = "TurnResolve"
          /\ ~lastStep'.hasContext
          /\ lastStep'.action \in
                 { "customer_creation_error", "file_uploaded", "error",
                   "customer_lookup_error", "something_else" } ) =>
          DOMAIN conversationContext' = {"language"} ]_vars
\* C22: every step leaves the log unchanged, appends exactly one message at
\* its end, or, in a step that runs resetChat, replaces it by the single
\* greeting; no step removes, reorders or rewrites an appended message.
LogAppendOnly ==
    [][ \/ messages' = messages
        \/ /\ Len(messages') = Len(messages) + 1
           /\ SubSeq(messages', 1, Len(messages)) = messages
        \/ /\ lastStep'.op \in { "handleResetChat", "setLanguage" }
           /\ Len(messages') = 1
           /\ messages'[1].kind = "greeting" ]_vars

\* a log of at least two pairs of entries, the last one just appended
LogAppendOnlyWitness ==
    /\ lastStep.op = "TurnResolve"
    /\ Len(messages) >= 5
    /\ messages[1].kind = "greeting"
    /\ IsUserText(messages[2])
    /\ IsBotReply(messages[Len(messages)])
\* C24: a step of an interaction that started before a reset (the firing of
\* a re-submission scheduled before it, the settling of a turn or of an
\* upload started before it) changes neither the log nor the context and
\* starts no turn.
NoStaleEffects ==
    [][ \A x \in (timers \ timers') \cup (turns \ turns')
                    \cup (ingests \ ingests') :
          (\E r \in resets : r.id > x.id) =>
              /\ messages' = messages
              /\ conversationContext' = conversationContext
              /\ turns' \subseteq turns ]_vars

\* C25: the context of every turn request is the stored context of the
\* moment in which the request is issued, with language bound to the
\* selected language.
RequestContextCurrent ==
    [][ \A t \in turns' \ turns :
          t.context =
              [k \in (DOMAIN conversationContext) \cup {"language"} |->
                  IF k = "language" THEN language ELSE conversationContext[k]]
      ]_vars

\* C26: in every state the language of the stored context is the selected
\* language.
ContextLanguageCurrent == conversationContext.language = language

\* C27: at most one request to the dialogue endpoint, turn or reset
\* notification, is outstanding.
OneDialogueRequest == Cardinality(turns) + Cardinality(resets) <= 1

\* C28: while showChatInput is false the log holds at most the greeting.
HiddenInputEmptyLog == ~showChatInput => Len(messages) <= 1
\* C29: a language change leaves the log with the single greeting in the
\* new language, the context with the single key language bound to the new
\* language, showChatInput false, and exactly one more reset notification
\* outstanding, which carries the new language.
LanguageChangeResets ==
    [][ lastStep'.op = "setLanguage" =>
          /\ language' # language
          /\ Len(messages') = 1
          /\ messages'[1].isBot
          /\ messages'[1].kind = "greeting"
          /\ messages'[1].arg = language'
          /\ conversationContext' = [language |-> language']
          /\ ~showChatInput'
          /\ resets \subseteq resets'
          /\ Cardinality(resets' \ resets) = 1
          /\ \A n \in resets' \ resets : n.context = [language |-> language']
      ]_vars

\* the language was changed in a conversation that had revealed the text
\* input and stored data
LanguageChangeWitness ==
    /\ lastStep.op = "setLanguage"
    /\ lastStep.hadData
    /\ language = "en"
    /\ messages[1].arg = "en"
    /\ Len(messages) = 1
    /\ ~showChatInput

\* C30: the step in which uploadImageForOcr rejects appends exactly one bot
\* error message that names the file, schedules no re-submission and starts
\* no turn, leaves showChatInput unchanged and leaves isTyping false.
OcrFailureHandled ==
    [][ \A g \in ingests \ ingests' :
          lastStep'.op = "OcrReject" =>
              /\ AppendsOne(LAMBDA m : /\ m.isBot
                                       /\ m.kind = "ocr_error"
                                       /\ m.arg = g.file)
              /\ timers' = timers
              /\ turns' = turns
              /\ showChatInput' = showChatInput
              /\ ~isTyping' ]_vars

\* an upload has failed: the log ends with the upload notice and the error
\* that names the file, the input is still shown and nothing is pending
OcrFailureWitness ==
    /\ lastStep.op = "OcrReject"
    /\ messages[Len(messages)].kind = "ocr_error"
    /\ messages[Len(messages) - 1].kind = "uploading"
    /\ messages[Len(messages)].arg = messages[Len(messages) - 1].arg
    /\ showChatInput
    /\ timers = {}
    /\ turns = {}
    /\ ingests = {}
    /\ ~isTyping
\* the message carries a download reference
HasDownload(m) == "href" \in DOMAIN m

\* C21: when an invoice_created response has both invoice_id and pdf_url,
\* the step appends one bot message whose download reference has pdf_url as
\* its target and invoice_{invoice_id}.pdf as its file name, and fires
\* exactly one notification, which quotes invoice_id; when either is
\* missing, the one bot message appended is the message of the response or,
\* without one, the synthesized text, and carries no download reference.
InvoiceCreatedHandled ==
    [][ \A t \in turns \ turns', resp \in InvoiceResponses :
          TurnResolve(t, resp) =>
              IF resp.invoice_id # <<>> /\ resp.pdf_url # <<>>
              THEN /\ AppendsOne(LAMBDA m :
                         /\ m.isBot
                         /\ HasDownload(m)
                         /\ m.href = resp.pdf_url
                         /\ m.download =
                                <<"i","n","v","o","i","c","e","_">>
                                    \o resp.invoice_id \o <<".","p","d","f">>)
                   /\ Len(lastStep'.toasts) = 1
                   /\ lastStep'.toasts[1].arg = resp.invoice_id
              ELSE AppendsOne(LAMBDA m :
                         /\ m.isBot
                         /\ ~HasDownload(m)
                         /\ IF resp.message # <<>>
                            THEN m.kind = "reply" /\ m.text = resp.message
                            ELSE m.kind = "reply_fallback") ]_vars

\* the response {message: "Done", invoice_id: "I1", pdf_url: "u1"} was
\* answered with a link to u1 that downloads invoice_I1.pdf, after a response
\* without pdf_url had been answered with its message alone
InvoiceCreatedWitness ==
    /\ lastStep.op = "TurnResolve"
    /\ lastStep.toasts = << [title |-> "Invoice Created!", arg |-> <<"I","1">>] >>
    /\ Len(messages) = 5
    /\ ~HasDownload(messages[3])
    /\ messages[3].text = <<"D","o","n","e">>
    /\ HasDownload(messages[5])
    /\ messages[5].href = <<"u","1">>
    /\ messages[5].download =
           <<"i","n","v","o","i","c","e","_","I","1",".","p","d","f">>
\* C23: in every state the messages of the log have pairwise distinct ids.
DistinctIds ==
    \A i, j \in 1..Len(messages) :
        i # j => messages[i].id # messages[j].id
\* C31: when the action of the response is outside the vocabulary, the step
\* appends exactly one bot message, which is the diagnostic that quotes the
\* action name and not the transport-error message, leaves the context as
\* it was unless the response carries one, and leaves isTyping false.
UnknownActionDegrades ==
    [][ ( /\ lastStep'.op = "TurnResolve"
          /\ lastStep'.action \notin
                 { "general_response", "list_items", "ask_question",
                   "request_invoice_info", "customer_created",
                   "customer_exists", "customer_creation_failed",
                   "customer_creation_error", "invoice_created",
                   "invoice_creation_failed", "invoice_creation_error",
                   "reset_success", "file_uploaded", "error",
                   "customer_lookup_error" } ) =>
          /\ AppendsOne(LAMBDA m : /\ m.isBot
                                   /\ m.kind = "unhandled"
                                   /\ m.arg = lastStep'.action)
          /\ lastStep'.toasts = <<>>
          /\ lastStep'.hasContext \/ conversationContext' = conversationContext
          /\ ~isTyping' ]_vars

\* a response with an unknown action and no context arrived while the
\* context held data: the diagnostic is in the log and the data is kept
UnknownActionWitness ==
    /\ lastStep.op = "TurnResolve"
    /\ lastStep.action = "something_else"
    /\ ~lastStep.hasContext
    /\ lastStep.hadData
    /\ "status" \in DOMAIN conversationContext
    /\ messages[Len(messages)].kind = "unhandled"
    /\ messages[Len(messages)].arg = "something_else"
    /\ ~isTyping
\* the log has not been cleared since the request of turn t was issued
NotClearedSince(t) == \A r \in resets' : r.id < t.id

\* the log after the step holds the user message of turn t at position i
UserEntryAt(t, i) ==
    /\ i \in 1..Len(messages')
    /\ IsUserText(messages'[i])
    /\ messages'[i].text = t.text

\* C32: the step that issues the request of a turn appends that turn's user
\* message, the message stays in the log while the request is outstanding
\* (unless the log is cleared), and the step that ends the turn appends its
\* bot entry at the end of the log, behind the user message.
UserEntryBeforeBotEntry ==
    [][ /\ \A t \in turns' \ turns :
              AppendsOne(LAMBDA m : IsUserText(m) /\ m.text = t.text)
        /\ \A t \in turns' :
              NotClearedSince(t) => \E i \in 1..Len(messages') : UserEntryAt(t, i)
        /\ \A t \in turns \ turns' :
              /\ AppendsOne(LAMBDA m : m.isBot)
              /\ NotClearedSince(t) =>
                     \E i \in 1..Len(messages) : UserEntryAt(t, i) ]_vars

\* a typed turn has been answered: its user message is the entry right
\* before the reply, and no request is outstanding
UserEntryBeforeBotEntryWitness ==
    /\ lastStep.op = "TurnResolve"
    /\ turns = {}
    /\ Len(messages) >= 4
    /\ IsUserText(messages[Len(messages) - 1])
    /\ messages[Len(messages) - 1].text = <<"h", "i">>
    /\ IsBotReply(messages[Len(messages)])
\* the requests the step issues: every outstanding call stands for the one
\* fetch of sendChatMessageToBot or uploadImageForOcr
NewRequests ==
    Cardinality(turns' \ turns) + Cardinality(ingests' \ ingests)
        + Cardinality(resets' \ resets)

RequestOps ==
    TurnStartOps \cup { "handleFileUpload", "handleResetChat", "setLanguage" }

FailureOps ==
    { "TurnReject", "TurnHttpError", "TurnMalformed", "OcrReject", "OcrHttpError" }

\* text quotes the status of the response and ends with its body
CarriesStatusAndBody(text, response) ==
    LET digits == NumberToString(response.status)
        n == Len(text) - Len(response.body)
    IN /\ n >= Len(digits)
       /\ SubSeq(text, n + 1, Len(text)) = response.body
       /\ \E i \in 1..(n - Len(digits) + 1) :
              SubSeq(text, i, i + Len(digits) - 1) = digits

\* C33: a step that calls the transport issues exactly one request and no
\* other step issues any; a failed turn or upload ends one call, issues no
\* request and schedules none; and the error of a response that is not ok,
\* as quoted in the appended message, carries the status and the raw body.
OneRequestNoRetry ==
    [][ /\ NewRequests = IF lastStep'.op \in RequestOps THEN 1 ELSE 0
        /\ lastStep'.op \in FailureOps =>
              /\ timers' = timers
              /\ turns' \subseteq turns
              /\ ingests' \subseteq ingests
              /\ Cardinality(turns \ turns') + Cardinality(ingests \ ingests') = 1
        /\ \A t \in turns, response \in HttpFailures :
              TurnHttpError(t, response) =>
                  AppendsOne(LAMBDA m : /\ IsTurnError(m)
                                        /\ CarriesStatusAndBody(m.text, response))
        /\ \A g \in ingests, response \in HttpFailures :
              OcrHttpError(g, response) =>
                  AppendsOne(LAMBDA m : /\ m.isBot
                                        /\ m.kind = "ocr_error"
                                        /\ CarriesStatusAndBody(m.text, response)) ]_vars

\* the backend answered a turn with status 500 and a body: the error is
\* quoted in the log and nothing is outstanding or scheduled
OneRequestNoRetryWitness ==
    /\ lastStep.op = "TurnHttpError"
    /\ turns = {}
    /\ ingests = {}
    /\ timers = {}
    /\ ~isTyping
    /\ IsTurnError(messages[Len(messages)])
    /\ messages[Len(messages)].text =
           <<"H", "T", "T", "P", " ", "e", "r", "r", "o", "r", "!", " ",
             "s", "t", "a", "t", "u", "s", ":", " ", "5", "0", "0",
             " ", "-", " ", "{", "}">>
IsSpace(c) == c \in {" ", "\n", "\t"}

\* the typed text holds nothing but white space
IsBlank(message) == \A i \in 1..Len(message) : IsSpace(message[i])

\* text is message without its leading and trailing white space
IsTrimmed(text, message) ==
    /\ text # <<>>
    /\ ~IsSpace(text[1])
    /\ ~IsSpace(text[Len(text)])
    /\ \E i \in 1..Len(message) :
          /\ i + Len(text) - 1 <= Len(message)
          /\ SubSeq(message, i, i + Len(text) - 1) = text
          /\ \A k \in 1..Len(message) :
                (k < i \/ k > i + Len(text) - 1) => IsSpace(message[k])

\* C34: a submission of the input control that is blank, or made while
\* the control is disabled, changes neither the log nor the turns in
\* flight; any other submission starts one turn whose text, also the text
\* of the appended user message, is the typed text trimmed.
TypedSubmissionTrimmed ==
    [][ \A message \in TypedInputs \cup MoreTypedInputs :
          handleSend(message) =>
              IF IsBlank(message) \/ isTyping
              THEN /\ messages' = messages
                   /\ turns' = turns
                   /\ isTyping' = isTyping
              ELSE \E t \in turns' \ turns :
                      /\ turns' = turns \cup {t}
                      /\ IsTrimmed(t.text, message)
                      /\ AppendsOne(LAMBDA m : IsUserText(m) /\ m.text = t.text) ]_vars

\* " Reset " was typed while the control was enabled: the turn in flight
\* and the last entry of the log carry "Reset"
TypedSubmissionWitness ==
    /\ lastStep.op = "handleSend"
    /\ isTyping
    /\ \E t \in turns : t.text = <<"R", "e", "s", "e", "t">>
    /\ IsUserText(messages[Len(messages)])
    /\ messages[Len(messages)].text = <<"R", "e", "s", "e", "t">>
====
